---- MODULE Spec2Model ----
(***************************************************************************)
(* A model of quantopian.py: get_pricing (a price fetcher over a market-   *)
(* data provider) and RollingOLS (a rolling regression over an OLS         *)
(* solver).  The two functions do not interact; each has a specification   *)
(* of its own (SpecPricing, SpecOLS) over the same variables.              *)
(***************************************************************************)
EXTENDS Integers, Sequences, FiniteSets, TLC

VARIABLES
    pc,        \* position of the call that is running
    \* ---- RollingOLS ----
    y,         \* response series: [index |-> timestamps, values |-> numbers]
    x,         \* regressor series, same shape
    window,    \* the window argument
    result,    \* the DataFrame built at line 95: a sequence of rows
    i_start,   \* loop variable of line 97
    fits,      \* history: what each call of sm.OLS(...).fit() was given and returned
    \* ---- get_pricing ----
    symbol,    \* the symbol argument: [kind |-> "str" | "list", val |-> ...]
    fields,    \* the fields argument: [kind |-> "none" | "str" | "list", val |-> ...]
    provider,  \* what the data provider holds for each ticker
    prices_df, \* the table of line 55
    item,      \* position in the loop of line 57
    df,        \* the table of lines 74-84 of the single-symbol call
    ret,       \* the returned object
    queries    \* history: the tickers whose history was queried, in order

vars == <<pc, y, x, window, result, i_start, fits,
          symbol, fields, provider, prices_df, item, df, ret, queries>>

olsVars     == <<y, x, window, result, i_start, fits>>
pricingVars == <<symbol, fields, provider, prices_df, item, df, ret, queries>>

(***************************************************************************)
(* Bounds of the model.                                                    *)
(***************************************************************************)
MaxLen    == 3   \* longest input series of RollingOLS
MaxVal    == 1   \* series values are drawn from 0..MaxVal
MaxWindow == 4   \* largest window argument

(***************************************************************************)
(* Exact rational numbers <<num, den>> in lowest terms with den > 0 stand  *)
(* for the floating-point coefficients; <<0, 0>> is NaN.                   *)
(***************************************************************************)
Abs(a) == IF a < 0 THEN -a ELSE a

RECURSIVE GCD(_, _)
GCD(a, b) == IF b = 0 THEN a ELSE GCD(b, a % b)

NaN == <<0, 0>>

Rat(n, d) ==
    IF d = 0 THEN NaN
    ELSE LET g == GCD(Abs(n), Abs(d))
             s == IF d < 0 THEN -1 ELSE 1
         IN  <<(s * n) \div g, (s * d) \div g>>

RECURSIVE Sum(_)
Sum(s) == IF s = <<>> THEN 0 ELSE Head(s) + Sum(Tail(s))

Dot(a, b) == Sum([k \in 1..Len(a) |-> a[k] * b[k]])

Min(a, b) == IF a < b THEN a ELSE b
Max(a, b) == IF a > b THEN a ELSE b

(***************************************************************************)
(* pandas Series and positional slicing s[lo:hi], s[lo:] (0-based, end     *)
(* exclusive, clipped to the series).                                      *)
(***************************************************************************)
Series(idx, vals) == [index |-> idx, values |-> vals]

SliceSeq(s, lo, hi) == SubSeq(s, Min(lo, Len(s)) + 1, Min(hi, Len(s)))

Slice(s, lo, hi) == Series(SliceSeq(s.index, lo, hi), SliceSeq(s.values, lo, hi))

SliceFrom(s, lo) == Slice(s, lo, Len(s.index))

(***************************************************************************)
(* sm.add_constant(data) with its defaults prepend=True and                *)
(* has_constant='skip': a column of ones named "const" is put in front of  *)
(* the data, unless the data already is a nonzero constant column, in      *)
(* which case the data is returned unchanged.                              *)
(***************************************************************************)
IsNonzeroConst(vals) ==
    /\ Len(vals) > 0
    /\ \A k \in 1..Len(vals) : vals[k] = vals[1]
    /\ vals[1] # 0

add_constant(data) ==
    LET ones == [k \in 1..Len(data.values) |-> 1]
        col  == [name |-> "x", values |-> data.values]
    IN  [index   |-> data.index,
         columns |-> IF IsNonzeroConst(data.values)
                     THEN <<col>>
                     ELSE <<[name |-> "const", values |-> ones], col>>]

(***************************************************************************)
(* sm.OLS(endog, exog).fit().params: the least-squares coefficients, one   *)
(* per column of the design matrix and in its column order.  A singular    *)
(* design is solved with the pseudo-inverse (minimum-norm solution).       *)
(***************************************************************************)
OLSParams(endog, exog) ==
    LET cols == exog.columns
        yv   == endog.values
    IN  IF Len(cols) = 1
        THEN LET a == cols[1].values
             IN  <<Rat(Dot(a, yv), Dot(a, a))>>
        ELSE LET a   == cols[1].values
                 b   == cols[2].values
                 Saa == Dot(a, a)
                 Sbb == Dot(b, b)
                 Sab == Dot(a, b)
                 Say == Dot(a, yv)
                 Sby == Dot(b, yv)
                 det == Saa * Sbb - Sab * Sab
             IN  IF det # 0
                 THEN <<Rat(Say * Sbb - Sby * Sab, det),
                        Rat(Sby * Saa - Say * Sab, det)>>
                 ELSE <<Rat(Say, Saa + Sbb), Rat(Sby, Saa + Sbb)>>

(***************************************************************************)
(* RollingOLS, lines 89-107.                                               *)
(***************************************************************************)
\* mutation: the rows stamped with the window's own last timestamp
ResultIndex_WindowEnd(ys, w) == SliceFrom(ys, w - 1).index

\* line 95: index=y[window:].index
ResultIndex(ys, w) == SliceFrom(ys, w).index

\* line 95: an empty frame with columns ('x', 'intercept') over that index
NewResult(ys, w) ==
    LET idx == ResultIndex(ys, w)
    IN  [k \in 1..Len(idx) |-> [t |-> idx[k], x |-> NaN, intercept |-> NaN]]

\* mutation: the loop stops one iteration early
LoopBound_Short(ys, w) == Len(ys.index) - w - 1

\* mutation: the loop runs one iteration more
LoopBound_Long(ys, w) == Len(ys.index) - w + 1

\* line 97: range(len(y) - window)
LoopBound(ys, w) == Len(ys.index) - w

\* mutation: the window takes in the observation after it
IEnd_Inclusive(i, w) == i + w + 1

\* line 99
IEnd(i, w) == i + w

\* line 105: result.iloc[i] = values, the values taken by position into the
\* columns ('x', 'intercept')
SetRow(res, i, values) ==
    [res EXCEPT ![i + 1] = [t |-> @.t, x |-> values[1], intercept |-> values[2]]]

OLSCreate ==
    /\ pc = "ols_call"
    /\ result' = NewResult(y, window)
    /\ i_start' = 0
    /\ pc' = "ols_loop"
    /\ UNCHANGED <<y, x, window, fits>>
    /\ UNCHANGED pricingVars

\* lines 99-105: one iteration of the loop.  A one-column design (a nonzero
\* constant window of x) yields a single coefficient; assigning a list of one
\* value to a row of two columns either broadcasts it or raises ValueError,
\* depending on the pandas build.
OLSIter ==
    /\ pc = "ols_loop"
    /\ i_start < LoopBound(y, window)
    /\ LET i_end     == IEnd(i_start, window)
           x_new     == add_constant(Slice(x, i_start, i_end))
           y_new     == Slice(y, i_start, i_end)
           params    == OLSParams(y_new, x_new)
           fit       == [endog |-> y_new, exog |-> x_new, params |-> params,
                         row |-> i_start]
       IN  /\ fits' = Append(fits, fit)
           /\ \/ /\ i_start < Len(result)
                 /\ Len(params) = 2
                 /\ result' = SetRow(result, i_start, params)
                 /\ i_start' = i_start + 1
                 /\ pc' = "ols_loop"
              \/ /\ i_start < Len(result)
                 /\ Len(params) = 1
                 /\ result' = SetRow(result, i_start, <<params[1], params[1]>>)
                 /\ i_start' = i_start + 1
                 /\ pc' = "ols_loop"
              \/ /\ ~(i_start < Len(result) /\ Len(params) = 2)
                 /\ pc' = "ols_raised"
                 /\ UNCHANGED <<result, i_start>>
    /\ UNCHANGED <<y, x, window>>
    /\ UNCHANGED pricingVars

\* line 107
OLSReturn ==
    /\ pc = "ols_loop"
    /\ i_start >= LoopBound(y, window)
    /\ pc' = "ols_done"
    /\ UNCHANGED olsVars
    /\ UNCHANGED pricingVars

(***************************************************************************)
(* The calls of RollingOLS the model explores: y and x are aligned series  *)
(* (one shared index of strictly increasing timestamps) of equal length,   *)
(* window is a positive integer.                                           *)
(***************************************************************************)
Timestamps(n) ==
    {s \in [1..n -> 1..(n + 1)] : \A k \in 1..(n - 1) : s[k] < s[k + 1]}

IdlePricing ==
    /\ symbol = [kind |-> "str", val |-> ""]
    /\ fields = [kind |-> "none", val |-> <<>>, names |-> <<>>]
    /\ provider = <<>>
    /\ prices_df = <<>>
    /\ item = 0
    /\ df = <<>>
    /\ ret = <<>>
    /\ queries = <<>>

InitOLS ==
    /\ pc = "ols_call"
    /\ \E n \in 0..MaxLen :
         \E idx \in Timestamps(n) :
           /\ y \in {Series(idx, v) : v \in [1..n -> 0..MaxVal]}
           /\ x \in {Series(idx, v) : v \in [1..n -> 0..MaxVal]}
    /\ window \in 1..MaxWindow
    /\ result = <<>>
    /\ i_start = 0
    /\ fits = <<>>
    /\ IdlePricing

NextOLS == OLSCreate \/ OLSIter \/ OLSReturn

SpecOLS == InitOLS /\ [][NextOLS]_vars

(***************************************************************************)
(* Properties of RollingOLS.                                               *)
(***************************************************************************)
NRows == Len(y.index) - window

Range(s) == {s[k] : k \in 1..Len(s)}

OLSStarted == pc \in {"ols_loop", "ols_done", "ols_raised"}

\* C1: for a positive window w < n, output row i (0 <= i <= n-w-1) carries
\* the timestamp of y at position w + i, and once iteration i has run the row
\* holds the coefficients that iteration fitted.
C1_RowTimestamp ==
    (OLSStarted /\ window < Len(y.index)) =>
        /\ Len(result) >= NRows
        /\ \A i \in 0..(NRows - 1) :
             /\ result[i + 1].t = y.index[window + i + 1]
             /\ i < i_start =>
                  /\ fits[i + 1].row = i
                  /\ {result[i + 1].x, result[i + 1].intercept}
                       = Range(fits[i + 1].params)

C1_Witness ==
    /\ pc = "ols_done"
    /\ Len(result) >= 2
    /\ result[2].t = y.index[window + 2]
    /\ result[2].t # window + 2
    /\ result[2].t # y.index[window + 1] + 1

\* C2 as stated: for every positive window the call returns exactly n - w rows.
C2_Original ==
    pc = "ols_done" => Len(result) = Len(y.index) - window

RowFilled(r) == r.x # NaN /\ r.intercept # NaN

\* C2 (amended): the call returns exactly max(n - w, 0) rows, each written
\* exactly once by the loop, none left unfilled.
C2_RowCount ==
    pc = "ols_done" =>
        /\ Len(result) = Max(Len(y.index) - window, 0)
        /\ \A r \in 1..Len(result) :
             /\ Cardinality({k \in 1..Len(fits) : fits[k].row = r - 1}) = 1
             /\ RowFilled(result[r])

C2_Witness ==
    /\ pc = "ols_done"
    /\ Len(y.index) = MaxLen
    /\ window = 1
    /\ Len(result) = MaxLen - 1
    /\ \A r \in 1..Len(result) : RowFilled(result[r])

\* C3: with window >= len(y) the call returns zero rows, does not raise and
\* never invokes the OLS solver.
C3_WindowTooLarge ==
    window >= Len(y.index) =>
        /\ fits = <<>>
        /\ pc # "ols_raised"
        /\ OLSStarted => result = <<>>
        /\ pc = "ols_loop" => ENABLED OLSReturn

C3_Witness ==
    /\ pc = "ols_done"
    /\ Len(y.index) > 0
    /\ window = Len(y.index)
    /\ result = <<>>

NonzeroVariance(vals) == \E j, k \in 1..Len(vals) : vals[j] # vals[k]

ParamOf(fit, name) ==
    LET k == CHOOSE j \in 1..Len(fit.exog.columns) : fit.exog.columns[j].name = name
    IN  fit.params[k]

\* C4: in every output row (fitted on a window of x of nonzero variance) the
\* field labelled 'x' holds the coefficient fitted for the regressor x and the
\* field labelled 'intercept' the coefficient fitted for the constant term;
\* with y = x the row is slope 1, intercept 0.
C4_SlopeIntercept ==
    \A i \in 0..(i_start - 1) :
        NonzeroVariance(Slice(x, i, i + window).values) =>
            /\ result[i + 1].x = ParamOf(fits[i + 1], "x")
            /\ result[i + 1].intercept = ParamOf(fits[i + 1], "const")
            /\ (y.values = x.values /\ NonzeroVariance(fits[i + 1].endog.values)) =>
                  /\ result[i + 1].x = Rat(1, 1)
                  /\ result[i + 1].intercept = Rat(0, 1)

\* C10: the fit of iteration i uses exactly the observations at positions
\* i .. i+window-1 of y and of x; so the row stamped y[window+i] is computed
\* only from observations before that position, and the last observation of
\* y is used by no fit.
C10_WindowObservations ==
    \A k \in 1..Len(fits) :
        LET i    == k - 1
            pos  == [j \in 1..window |-> i + j]
            xcol == fits[k].exog.columns[Len(fits[k].exog.columns)]
        IN  /\ fits[k].row = i
            /\ i + window < Len(y.index)
            /\ fits[k].endog.index = [j \in 1..window |-> y.index[pos[j]]]
            /\ fits[k].endog.values = [j \in 1..window |-> y.values[pos[j]]]
            /\ fits[k].exog.index = [j \in 1..window |-> x.index[pos[j]]]
            /\ xcol.values = [j \in 1..window |-> x.values[pos[j]]]
            /\ \A t \in Range(fits[k].endog.index) \cup Range(fits[k].exog.index) :
                 /\ t < result[i + 1].t
                 /\ t # y.index[Len(y.index)]

C10_Witness ==
    /\ pc = "ols_done"
    /\ window >= 2
    /\ Len(fits) >= 1
    /\ fits[Len(fits)].endog.index = SubSeq(y.index, Len(fits), Len(y.index) - 1)

(***************************************************************************)
(* get_pricing, lines 6-86.                                                *)
(*                                                                         *)
(* Python strings are sequences of one-character strings, so that join and *)
(* split act on them as they do in Python.  Column labels are such strings.*)
(***************************************************************************)
L_Open         == <<"O", "p", "e", "n">>
L_High         == <<"H", "i", "g", "h">>
L_Low          == <<"L", "o", "w">>
L_Close        == <<"C", "l", "o", "s", "e">>
L_Volume       == <<"V", "o", "l", "u", "m", "e">>
L_Dividends    == <<"D", "i", "v", "i", "d", "e", "n", "d", "s">>
L_StockSplits  == <<"S", "t", "o", "c", "k", " ", "S", "p", "l", "i", "t", "s">>
L_open_price   == <<"o", "p", "e", "n", "_", "p", "r", "i", "c", "e">>
L_high         == <<"h", "i", "g", "h">>
L_low          == <<"l", "o", "w">>
L_close_price  == <<"c", "l", "o", "s", "e", "_", "p", "r", "i", "c", "e">>
L_volume       == <<"v", "o", "l", "u", "m", "e">>
L_price        == <<"p", "r", "i", "c", "e">>

Comma == ","

RECURSIVE Flatten(_)
Flatten(ss) == IF ss = <<>> THEN <<>> ELSE Head(ss) \o Flatten(Tail(ss))

\* iterating a str yields its characters, iterating a list its elements
Elements(f) ==
    IF f.kind = "str" THEN [k \in 1..Len(f.val) |-> <<f.val[k]>>] ELSE f.val

\* ''.join(fields)
Join(f) == Flatten(Elements(f))

\* s.split(sep): the pieces of s between the separators, empty pieces kept
RECURSIVE Split(_, _)
Split(str, sep) ==
    IF \A k \in 1..Len(str) : str[k] # sep
    THEN <<str>>
    ELSE LET k == CHOOSE j \in 1..Len(str) :
                    /\ str[j] = sep
                    /\ \A m \in 1..(j - 1) : str[m] # sep
         IN  <<SubSeq(str, 1, k - 1)>> \o Split(SubSeq(str, k + 1, Len(str)), sep)

\* truth value of the fields argument (None, '' and [] are false)
Truthy(f) == f.kind # "none" /\ Len(f.val) > 0

(***************************************************************************)
(* pandas objects.  A DataFrame is its column labels, its index and its    *)
(* rows (rows[r][c] is the cell of row r, column c); a Series is an index  *)
(* and its values.  NA is a missing value.                                 *)
(***************************************************************************)
NA == <<"", 0, 0>>

DataFrame(cols, idx, rows) ==
    [kind |-> "DataFrame", columns |-> cols, index |-> idx, rows |-> rows]

PSeries(idx, vals) == [kind |-> "Series", index |-> idx, values |-> vals]

EmptyFrame == DataFrame(<<>>, <<>>, <<>>)

HasCol(d, label) == \E c \in 1..Len(d.columns) : d.columns[c] = label

ColPos(d, label) ==
    CHOOSE c \in 1..Len(d.columns) :
        /\ d.columns[c] = label
        /\ \A b \in 1..(c - 1) : d.columns[b] # label

Column(d, label) == [r \in 1..Len(d.index) |-> d.rows[r][ColPos(d, label)]]

\* df.rename(columns=mapping)
Rename(d, mapping) ==
    DataFrame([c \in 1..Len(d.columns) |->
                  IF d.columns[c] \in DOMAIN mapping
                  THEN mapping[d.columns[c]] ELSE d.columns[c]],
              d.index, d.rows)

RECURSIVE Keep(_, _)
Keep(seq, keep) ==
    IF seq = <<>> THEN <<>>
    ELSE IF keep[1] THEN <<Head(seq)>> \o Keep(Tail(seq), Tail(keep))
         ELSE Keep(Tail(seq), Tail(keep))

\* df.drop(labels, axis=1); KeyError unless every label is a column
DropOK(d, labels) == \A l \in labels : HasCol(d, l)

Drop(d, labels) ==
    LET keep == [c \in 1..Len(d.columns) |-> d.columns[c] \notin labels]
    IN  DataFrame(Keep(d.columns, keep), d.index,
                  [r \in 1..Len(d.index) |-> Keep(d.rows[r], keep)])

\* df[label] = values: replaces the column or appends it as the last one
SetColumn(d, label, vals) ==
    IF HasCol(d, label)
    THEN DataFrame(d.columns, d.index,
                   [r \in 1..Len(d.index) |->
                       [d.rows[r] EXCEPT ![ColPos(d, label)] = vals[r]]])
    ELSE DataFrame(Append(d.columns, label), d.index,
                   [r \in 1..Len(d.index) |-> Append(d.rows[r], vals[r])])

\* df[key]: a str key yields that column as a Series, a list key yields the
\* DataFrame of the listed columns in the listed order; KeyError when a
\* label is not a column
GetItemOK(d, key) ==
    IF key.kind = "str" THEN HasCol(d, key.val)
    ELSE \A k \in 1..Len(key.val) : HasCol(d, key.val[k])

GetItem(d, key) ==
    IF key.kind = "str"
    THEN PSeries(d.index, Column(d, key.val))
    ELSE DataFrame(key.val, d.index,
                   [r \in 1..Len(d.index) |->
                       [k \in 1..Len(key.val) |-> d.rows[r][ColPos(d, key.val[k])]]])

\* df.dropna(): the rows without a missing value
DropNa(d) ==
    LET keep == [r \in 1..Len(d.index) |->
                    \A c \in 1..Len(d.columns) : d.rows[r][c] # NA]
    IN  DataFrame(d.columns, Keep(d.index, keep), Keep(d.rows, keep))

(***************************************************************************)
(* The data provider (yf.Ticker(symbol).history(...)).  For each ticker it *)
(* either fails or holds, for each timestamp, no bar, a bar of missing     *)
(* prices, or a bar of values.  The value of a cell is named by its        *)
(* ticker, timestamp and provider column.                                  *)
(***************************************************************************)
MaxT      == 2   \* timestamps are 1..MaxT
MaxSyms   == 2   \* longest list of symbols
MaxFields == 2   \* most names in a fields argument

Tickers == {"A", "B"}

ProviderColumns ==
    <<L_Open, L_High, L_Low, L_Close, L_Volume, L_Dividends, L_StockSplits>>

RECURSIVE Ascending(_, _)
Ascending(S, from) ==
    IF from > MaxT THEN <<>>
    ELSE IF from \in S THEN <<from>> \o Ascending(S, from + 1)
         ELSE Ascending(S, from + 1)

ProviderTable(sym) ==
    LET bars == provider[sym].bars
        idx  == Ascending({t \in 1..MaxT : bars[t] # "absent"}, 1)
    IN  DataFrame(ProviderColumns, idx,
                  [r \in 1..Len(idx) |->
                      [c \in 1..Len(ProviderColumns) |->
                          IF bars[idx[r]] = "nan" /\ c <= 5
                          THEN NA ELSE <<sym, idx[r], c>>]])

(***************************************************************************)
(* The single-symbol path, lines 76-86.                                    *)
(***************************************************************************)
\* line 77
RenameMap ==
    (L_Open :> L_open_price) @@ (L_High :> L_high) @@ (L_Low :> L_low)
        @@ (L_Close :> L_close_price) @@ (L_Volume :> L_volume)

\* mutation: price taken from the opening price
PriceSource_Open == L_open_price

\* line 79: the column price is copied from
PriceSource == L_close_price

\* lines 77-79
ProcessOK(table) == DropOK(Rename(table, RenameMap), {L_Dividends, L_StockSplits})

Process(table) ==
    LET renamed == Rename(table, RenameMap)
        dropped == Drop(renamed, {L_Dividends, L_StockSplits})
    IN  SetColumn(dropped, L_price, Column(dropped, PriceSource))

\* line 83: fields = ''.join(fields).split(',')
ParseFields(f) == [kind |-> "list", val |-> Split(Join(f), Comma)]

\* lines 82-84
ProjectOK(d, f) == Truthy(f) => GetItemOK(d, ParseFields(f))

Project(d, f) == IF Truthy(f) THEN GetItem(d, ParseFields(f)) ELSE d

(***************************************************************************)
(* The multi-symbol path, lines 53-60.                                     *)
(***************************************************************************)
\* what prices_df[item] = value is given: a Series as it is, a DataFrame of
\* one column as that column (a DataFrame of any other width is a ValueError)
SetItemOK(value) == value.kind = "DataFrame" => Len(value.columns) = 1

AsSeries(value) ==
    IF value.kind = "DataFrame"
    THEN PSeries(value.index, Column(value, value.columns[1]))
    ELSE value

\* prices_df[key] = value: a frame without rows takes the index of the value;
\* the value is then aligned to the frame's index, the timestamps it lacks
\* becoming missing values
SetItem(d, key, value) ==
    LET ser  == AsSeries(value)
        base == IF Len(d.index) = 0 /\ Len(ser.index) > 0
                THEN DataFrame(d.columns, ser.index,
                               [r \in 1..Len(ser.index) |->
                                   [c \in 1..Len(d.columns) |-> NA]])
                ELSE d
        at(t) == CHOOSE k \in 1..Len(ser.index) : ser.index[k] = t
        vals == [r \in 1..Len(base.index) |->
                    IF \E k \in 1..Len(ser.index) : ser.index[k] = base.index[r]
                    THEN ser.values[at(base.index[r])] ELSE NA]
    IN  SetColumn(base, key, vals)

\* mutation: the symbols taken last to first
LoopItems_Reversed(sym) == [k \in 1..Len(sym.val) |-> sym.val[Len(sym.val) + 1 - k]]

\* line 57: for item in symbol
LoopItems(sym) == sym.val

\* mutation: the table returned as assembled
Finish_NoDrop(d) == d

\* line 60
Finish(d) == DropNa(d)

Error(name) == [kind |-> "Error", name |-> name]

\* line 53
GPDispatch ==
    /\ pc = "gp_call"
    /\ IF symbol.kind = "list" /\ Truthy(fields)
       THEN pc' = "gp_multi" /\ prices_df' = EmptyFrame
       ELSE pc' = "gp_single" /\ UNCHANGED prices_df
    /\ UNCHANGED <<symbol, fields, provider, item, df, ret, queries>>
    /\ UNCHANGED olsVars

\* lines 57-58: one iteration of the loop, the recursive call of it included
GPLoopItem ==
    /\ pc = "gp_multi"
    /\ item < Len(LoopItems(symbol))
    /\ LET sym   == LoopItems(symbol)[item + 1]
           table == ProviderTable(sym)
           inner == Project(Process(table), fields)
       IN  /\ queries' = Append(queries, sym)
           /\ IF provider[sym].fail
              THEN /\ pc' = "gp_raised"
                   /\ ret' = Error("ProviderError")
                   /\ UNCHANGED <<prices_df, item>>
              ELSE IF ~ProcessOK(table) \/ ~ProjectOK(Process(table), fields)
                      \/ ~GetItemOK(inner, fields)
              THEN /\ pc' = "gp_raised"
                   /\ ret' = Error("KeyError")
                   /\ UNCHANGED <<prices_df, item>>
              ELSE IF ~SetItemOK(GetItem(inner, fields))
              THEN /\ pc' = "gp_raised"
                   /\ ret' = Error("ValueError")
                   /\ UNCHANGED <<prices_df, item>>
              ELSE /\ prices_df' = SetItem(prices_df, sym, GetItem(inner, fields))
                   /\ item' = item + 1
                   /\ pc' = "gp_multi"
                   /\ UNCHANGED ret
    /\ UNCHANGED <<symbol, fields, provider, df>>
    /\ UNCHANGED olsVars

\* line 60
GPMultiReturn ==
    /\ pc = "gp_multi"
    /\ item = Len(LoopItems(symbol))
    /\ ret' = Finish(prices_df)
    /\ pc' = "gp_done"
    /\ UNCHANGED <<symbol, fields, provider, prices_df, item, df, queries>>
    /\ UNCHANGED olsVars

\* lines 63-74: yf.Ticker takes one ticker string; a list is an error there.
\* start_date, end_date and frequency are handed to the provider and select
\* the bars it holds; they are part of the provider's choice of bars here.
GPQuery ==
    /\ pc = "gp_single"
    /\ IF symbol.kind = "list"
       THEN /\ pc' = "gp_raised"
            /\ ret' = Error("AttributeError")
            /\ UNCHANGED <<df, queries>>
       ELSE /\ queries' = Append(queries, symbol.val)
            /\ IF provider[symbol.val].fail
               THEN /\ pc' = "gp_raised"
                    /\ ret' = Error("ProviderError")
                    /\ UNCHANGED df
               ELSE /\ df' = ProviderTable(symbol.val)
                    /\ pc' = "gp_process"
                    /\ UNCHANGED ret
    /\ UNCHANGED <<symbol, fields, provider, prices_df, item>>
    /\ UNCHANGED olsVars

\* lines 77-79
GPProcess ==
    /\ pc = "gp_process"
    /\ IF ProcessOK(df)
       THEN df' = Process(df) /\ pc' = "gp_project" /\ UNCHANGED ret
       ELSE ret' = Error("KeyError") /\ pc' = "gp_raised" /\ UNCHANGED df
    /\ UNCHANGED <<symbol, fields, provider, prices_df, item, queries>>
    /\ UNCHANGED olsVars

\* lines 82-86
GPProject ==
    /\ pc = "gp_project"
    /\ IF ProjectOK(df, fields)
       THEN /\ df' = Project(df, fields)
            /\ ret' = Project(df, fields)
            /\ pc' = "gp_done"
       ELSE /\ ret' = Error("KeyError")
            /\ pc' = "gp_raised"
            /\ UNCHANGED df
    /\ UNCHANGED <<symbol, fields, provider, prices_df, item, queries>>
    /\ UNCHANGED olsVars

(***************************************************************************)
(* The calls of get_pricing the model explores.                            *)
(***************************************************************************)
FieldChoices == {L_price, L_volume}

SeqsUpTo(S, n) == UNION {[1..k -> S] : k \in 0..n}

\* 'a,b,c' for the names <<a, b, c>>
RECURSIVE CommaJoined(_)
CommaJoined(names) ==
    IF names = <<>> THEN <<>>
    ELSE IF Len(names) = 1 THEN names[1]
         ELSE names[1] \o <<Comma>> \o CommaJoined(Tail(names))

\* a fields argument; names records the field names the caller means by it
FieldsArgs ==
    {[kind |-> "none", val |-> <<>>, names |-> <<>>]}
        \cup {[kind |-> "str", val |-> CommaJoined(ns), names |-> ns] :
                  ns \in SeqsUpTo(FieldChoices, MaxFields)}
        \cup {[kind |-> "list", val |-> ns, names |-> ns] :
                  ns \in SeqsUpTo(FieldChoices, MaxFields)}

SymbolArgs ==
    {[kind |-> "str", val |-> s] : s \in Tickers}
        \cup {[kind |-> "list", val |-> ss] : ss \in SeqsUpTo(Tickers, MaxSyms)}

Requested(sa) == IF sa.kind = "str" THEN {sa.val} ELSE Range(sa.val)

NoBars == [t \in 1..MaxT |-> "absent"]

IdleOLS ==
    /\ y = Series(<<>>, <<>>)
    /\ x = Series(<<>>, <<>>)
    /\ window = 1
    /\ result = <<>>
    /\ i_start = 0
    /\ fits = <<>>

\* the provider's data matters for the requested tickers only: the others
\* hold nothing, as does a ticker whose query fails
InitPricing ==
    /\ pc = "gp_call"
    /\ symbol \in SymbolArgs
    /\ fields \in FieldsArgs
    /\ provider \in [Tickers -> [fail : BOOLEAN,
                                 bars : [1..MaxT -> {"absent", "nan", "value"}]]]
    /\ \A s \in Tickers :
         (s \notin Requested(symbol) \/ provider[s].fail) => provider[s].bars = NoBars
    /\ \A s \in Tickers : s \notin Requested(symbol) => ~provider[s].fail
    /\ prices_df = EmptyFrame
    /\ item = 0
    /\ df = EmptyFrame
    /\ ret = EmptyFrame
    /\ queries = <<>>
    /\ IdleOLS

NextPricing ==
    GPDispatch \/ GPLoopItem \/ GPMultiReturn \/ GPQuery \/ GPProcess \/ GPProject

SpecPricing == InitPricing /\ [][NextPricing]_vars

(***************************************************************************)
(* Properties of get_pricing.                                              *)
(***************************************************************************)
GPEnded == pc \in {"gp_done", "gp_raised"}

NoFailure == \A s \in Requested(symbol) : ~provider[s].fail

NamesKey(f) == [kind |-> "list", val |-> f.names]

\* C5: a single-symbol request with a non-empty fields argument returns
\* exactly the requested columns in the requested order, for a string of
\* comma-separated names and for a sequence of names alike.
C5_Projection ==
    (GPEnded /\ symbol.kind = "str" /\ Truthy(fields) /\ NoFailure) =>
        /\ pc = "gp_done"
        /\ ret.kind = "DataFrame"
        /\ ret.columns = fields.names
        /\ ret = GetItem(Process(ProviderTable(symbol.val)), NamesKey(fields))

RECURSIVE Dedup(_)
Dedup(seq) ==
    IF seq = <<>> THEN <<>>
    ELSE LET front == Dedup(SubSeq(seq, 1, Len(seq) - 1))
             last  == seq[Len(seq)]
         IN  IF last \in Range(front) THEN front ELSE Append(front, last)

\* the provider column a normalized field is taken from
ProviderColumnOf(name) ==
    IF name = L_price THEN 4
    ELSE CHOOSE c \in 1..5 : RenameMap[ProviderColumns[c]] = name

CommonTimestamps ==
    {t \in 1..MaxT : \A s \in Range(symbol.val) : provider[s].bars[t] = "value"}

OneFieldName == fields.kind = "str" /\ Len(fields.names) = 1

\* C6: for a list of symbols and a single field name the result has one
\* column per symbol, in the order of the list, and exactly the timestamps at
\* which every listed symbol has a non-missing value of that field.
C6_InnerJoin ==
    (symbol.kind = "list" /\ Len(symbol.val) >= 1 /\ OneFieldName) =>
        /\ (NoFailure => pc # "gp_raised")
        /\ pc = "gp_done" =>
             /\ ret.kind = "DataFrame"
             /\ ret.columns = Dedup(symbol.val)
             /\ ret.index = Ascending(CommonTimestamps, 1)
             /\ \A r \in 1..Len(ret.index) : \A c \in 1..Len(ret.columns) :
                  ret.rows[r][c] = <<ret.columns[c], ret.index[r],
                                     ProviderColumnOf(fields.names[1])>>

C6_Witness ==
    /\ pc = "gp_done"
    /\ symbol = [kind |-> "list", val |-> <<"A", "B">>]
    /\ OneFieldName
    /\ ret.columns = <<"A", "B">>
    /\ Len(ret.index) = 1
    /\ \E t \in 1..MaxT : provider["A"].bars[t] = "value" /\ provider["B"].bars[t] = "nan"

SixColumns == <<L_open_price, L_high, L_low, L_close_price, L_volume, L_price>>

\* C7: a single-symbol request with no fields returns exactly the six columns
\* open_price, high, low, close_price, volume and price over the rows of the
\* provider's table, and price equals close_price in every row.
C7_SixColumns ==
    (pc = "gp_done" /\ symbol.kind = "str" /\ ~Truthy(fields)) =>
        /\ ret.kind = "DataFrame"
        /\ Len(ret.columns) = 6
        /\ Range(ret.columns) = Range(SixColumns)
        /\ ret.index = ProviderTable(symbol.val).index
        /\ \A r \in 1..Len(ret.index) :
             /\ Len(ret.rows[r]) = 6
             /\ ret.rows[r][ColPos(ret, L_price)] = ret.rows[r][ColPos(ret, L_close_price)]
             /\ \A c \in 1..5 :
                  ret.rows[r][ColPos(ret, RenameMap[ProviderColumns[c]])]
                      = ProviderTable(symbol.val).rows[r][c]

C7_Witness ==
    /\ pc = "gp_done"
    /\ symbol.kind = "str"
    /\ fields.kind = "none"
    /\ Len(ret.index) = MaxT
    /\ ret.rows[1][ColPos(ret, L_price)] = <<symbol.val, 1, 4>>

\* C8: with symbol and fields both passed as strings the data is returned as
\* a Series, not as a DataFrame.
C8_SeriesForStrings ==
    (GPEnded /\ symbol.kind = "str" /\ fields.kind = "str" /\ Truthy(fields)
        /\ NoFailure) =>
        /\ pc = "gp_done"
        /\ ret.kind = "Series"

IsPrefix(a, b) == Len(a) <= Len(b) /\ a = SubSeq(b, 1, Len(a))

FailedAt(k) == provider[symbol.val[k]].fail

====
